---------------------------- MODULE Spec2Model ----------------------------
(***************************************************************************)
(* docker-kicker: a webhook endpoint that launches one container per kick, *)
(* subject to a per-configuration concurrency limit.  The model follows    *)
(* the file-based variant (src/unnamed/part_000); the older variant        *)
(* (src/app.js) has the same tracker and the same promise chain.  Its      *)
(* startup, whose validation differs, is the action StartupEnv.            *)
(*                                                                         *)
(* Strings that the code inspects character by character (configuration    *)
(* names, query values) are sequences of one-character strings; opaque     *)
(* strings (keys, addresses, images, parameter names) are TLA+ strings.    *)
(* The event loop runs one callback at a time, so every action below is    *)
(* one callback run to completion.                                         *)
(***************************************************************************)
EXTENDS Integers, Sequences, FiniteSets, TLC

(* ------------------------------ bounds -------------------------------- *)

\* Number of POST /:key requests that arrive in one behaviour.
MaxKicks == 4

Kicks == 1..MaxKicks

\* Only the first MaxDeviations requests may leave the plain path of a
\* kick: be answered 400, 403 or 500 by the handler, carry query parameters
\* that become environment entries, or be hit by a container-runtime failure.
MaxDeviations == 1

\* Longest configuration name and longest configuration list of the small
\* configuration files (SpecStartup).
MaxNameLen == 4

MaxEntries == 2

(* ------------------------- characters, names -------------------------- *)

AlnumChars == {"s", "v", "f", "x", "a", "b", "c", "d", "A", "1"}

IsAlnum(c) == c \in AlnumChars

RECURSIVE SkipNonAlnum(_)
\* The rest of a string after the run of non-alphanumerics at its start.
SkipNonAlnum(s) ==
  IF s = <<>> THEN <<>>
  ELSE IF IsAlnum(Head(s)) THEN s
  ELSE SkipNonAlnum(Tail(s))

\* Mutation: the pattern without its +, each character replaced on its own.
cleanConfigName_EachChar(name) ==
  [i \in 1..Len(name) |-> IF IsAlnum(name[i]) THEN name[i] ELSE "-"]

RECURSIVE cleanConfigName(_)
\* name.replace(/[\W_]+/g, "-"): every maximal run of characters outside
\* [A-Za-z0-9] becomes one dash.
cleanConfigName(name) ==
  IF name = <<>> THEN <<>>
  ELSE IF IsAlnum(Head(name)) THEN <<Head(name)>> \o cleanConfigName(Tail(name))
  ELSE <<"-">> \o cleanConfigName(SkipNonAlnum(Tail(name)))

(* --------------------------- configuration ---------------------------- *)

NoCreateOptions == [hasName |-> FALSE, name |-> <<>>, hasEnv |-> FALSE, env |-> <<>>]

\* One element of the parsed configuration array.  limit 0 stands for a
\* missing (or zero) limit, allowFrom kind "absent" for a missing allowFrom.
RawEntry(name, key, limit, createOptions) ==
  [name |-> name, key |-> key, image |-> "img",
   allowFrom |-> [kind |-> "absent", addrs |-> <<>>],
   queryParamsToEnv |-> <<"FOO">>,
   createOptions |-> createOptions, limit |-> limit]

EnvA1 == [k |-> "A", v |-> <<"1">>]

\* The configuration files the process may be started with.
ConfigFiles ==
  { <<RawEntry(<<"s", "_", "!", "v">>, "K1", 2, NoCreateOptions)>>,
    <<RawEntry(<<"s">>, "K1", 0,
        [hasName |-> TRUE, name |-> <<"f", "x">>, hasEnv |-> TRUE, env |-> <<EnvA1>>])>>,
    <<[RawEntry(<<"v">>, "K1", 1, NoCreateOptions)
         EXCEPT !.allowFrom = [kind |-> "string", addrs |-> <<"10.0.0.9">>]]>>,
    <<RawEntry(<<"s", "_">>, "K1", 1, NoCreateOptions),
      RawEntry(<<"s", "!">>, "K2", 1, NoCreateOptions)>> }

\* new ConfigEntry(conf): the defaults of the constructor.
ConfigEntry(conf) ==
  [_name |-> conf.name,
   _key |-> conf.key,
   _image |-> conf.image,
   _queryParamsToEnv |-> conf.queryParamsToEnv,
   _allowFrom |-> IF conf.allowFrom.kind = "absent"
                  THEN [kind |-> "list", addrs |-> <<"127.0.0.1", "::1">>]
                  ELSE conf.allowFrom,
   _createOptions |-> conf.createOptions,
   _limit |-> IF conf.limit = 0 THEN 1 ELSE conf.limit]

\* get name()
NameOf(e) == cleanConfigName(e._name)

\* tryValidateConfig(configArray): TRUE when it returns, FALSE when it throws.
tryValidateConfig(configArray) ==
  /\ \A i \in 1..Len(configArray) :
        /\ NameOf(configArray[i]) # <<>>
        /\ configArray[i]._key # ""
        /\ configArray[i]._image # ""
  /\ Cardinality({NameOf(configArray[i]) : i \in 1..Len(configArray)}) = Len(configArray)
  /\ Cardinality({configArray[i]._key : i \in 1..Len(configArray)}) = Len(configArray)

(* ------------------------------- state -------------------------------- *)

VARIABLES
  phase,       \* "starting", "listening", "failed" (startup threw), "crashed"
  rawIsArray,  \* Array.isArray of the parsed configuration file
  configRaw,   \* the parsed configuration file (its elements, when an array)
  config,      \* the ConfigEntry list (<<>> before startup)
  runningMap,  \* cleaned configuration name -> sequence of instance names
  kicks        \* per request: the handler's closure and its position

vars == <<phase, rawIsArray, configRaw, config, runningMap, kicks>>


(* --------------------------- launch tracker --------------------------- *)

\* genNewInstanceName(configEntry): `${name}_${uuid}`; uniq is the UUID drawn
\* for the call (a fresh value each call).
genNewInstanceName(configEntry, uniq) ==
  [root |-> NameOf(configEntry), uniq |-> uniq]

\* A name configured in createOptions; it carries no UUID.
ConfiguredName(name) == [root |-> name, uniq |-> 0]

\* Array.prototype.indexOf, 0-based, -1 when absent.
IndexOf(arr, x) ==
  IF \E i \in 1..Len(arr) : arr[i] = x
  THEN (CHOOSE i \in 1..Len(arr) : arr[i] = x /\ \A j \in 1..(i - 1) : arr[j] # x) - 1
  ELSE -1

\* arr.splice(start) with no deleteCount: removes every element from start
\* to the end; a negative start counts from the end.  The array that is left.
Splice(arr, start) ==
  LET from == IF start < 0
              THEN (IF Len(arr) + start < 0 THEN 0 ELSE Len(arr) + start)
              ELSE (IF start > Len(arr) THEN Len(arr) ELSE start)
  IN SubSeq(arr, 1, from)

\* runningMap.set(key, value)
MapSet(map, key, value) ==
  [n \in (DOMAIN map) \cup {key} |-> IF n = key THEN value ELSE map[n]]

\* Mutation: the limit test is off by one (> for >=).
tryTrack_OffByOne(map, configEntry, instanceName) ==
  IF NameOf(configEntry) \in DOMAIN map
  THEN LET alreadyRunning == map[NameOf(configEntry)] IN
       IF Len(alreadyRunning) > configEntry._limit
       THEN [ok |-> FALSE, map |-> map]
       ELSE [ok |-> TRUE,
             map |-> MapSet(map, NameOf(configEntry), Append(alreadyRunning, instanceName))]
  ELSE [ok |-> TRUE, map |-> MapSet(map, NameOf(configEntry), <<instanceName>>)]

\* Mutation: the limit test is missing; every instance is tracked.
tryTrack_NoLimitTest(map, configEntry, instanceName) ==
  [ok |-> TRUE,
   map |-> MapSet(map, NameOf(configEntry),
                  Append(IF NameOf(configEntry) \in DOMAIN map
                         THEN map[NameOf(configEntry)] ELSE <<>>, instanceName))]

\* tryTrackNewRunningInstance(config, instanceName): the returned boolean
\* and the map it leaves.
tryTrackNewRunningInstance(map, configEntry, instanceName) ==
  IF NameOf(configEntry) \in DOMAIN map
  THEN LET alreadyRunning == map[NameOf(configEntry)] IN
       IF Len(alreadyRunning) >= configEntry._limit
       THEN [ok |-> FALSE, map |-> map]
       ELSE [ok |-> TRUE,
             map |-> MapSet(map, NameOf(configEntry), Append(alreadyRunning, instanceName))]
  ELSE [ok |-> TRUE, map |-> MapSet(map, NameOf(configEntry), <<instanceName>>)]

\* untrackRunningInstance(config, instanceName): the map it leaves.
untrackRunningInstance(map, configEntry, instanceName) ==
  IF NameOf(configEntry) \in DOMAIN map /\ Len(map[NameOf(configEntry)]) > 0
  THEN LET alreadyRunning == map[NameOf(configEntry)] IN
       MapSet(map, NameOf(configEntry),
              Splice(alreadyRunning, IndexOf(alreadyRunning, instanceName)))
  ELSE map


(* --------------------------- request inputs --------------------------- *)

\* Path keys a client may send.
RequestKeys == {"K1", "K2", "nokey"}

\* Client addresses as the address resolver reports them.
ClientIps == {"127.0.0.1", "10.0.0.9"}

QueryNone == [p \in {} |-> <<>>]

QueryFooBaz == [p \in {"FOO", "BAZ"} |-> IF p = "FOO" THEN <<"%", "4", "1">> ELSE <<"x">>]

QueryBad == [p \in {"FOO"} |-> <<"%">>]

\* req.query objects (values already decoded once by the query parser).
Queries == {QueryNone, QueryFooBaz, QueryBad}

\* The percent escapes the model knows: %41 is "A", %25 is "%".
HexPair(a, b) ==
  IF a = "4" /\ b = "1" THEN "A"
  ELSE IF a = "2" /\ b = "5" THEN "%"
  ELSE ""

RECURSIVE decodeURIComponent(_)
\* decodeURIComponent(v): ok is FALSE when it throws URIError (a "%" that
\* does not start a valid escape).
decodeURIComponent(v) ==
  IF v = <<>> THEN [ok |-> TRUE, val |-> <<>>]
  ELSE IF Head(v) # "%"
       THEN LET rest == decodeURIComponent(Tail(v)) IN
            [ok |-> rest.ok, val |-> <<Head(v)>> \o rest.val]
       ELSE IF Len(v) < 3 \/ HexPair(v[2], v[3]) = ""
            THEN [ok |-> FALSE, val |-> <<>>]
            ELSE LET rest == decodeURIComponent(SubSeq(v, 4, Len(v))) IN
                 [ok |-> rest.ok, val |-> <<HexPair(v[2], v[3])>> \o rest.val]

RECURSIVE FilterKeys(_, _)
\* config.queryParamsToEnv.filter((key) => key in query)
FilterKeys(keys, query) ==
  IF keys = <<>> THEN <<>>
  ELSE IF Head(keys) \in DOMAIN query
       THEN <<Head(keys)>> \o FilterKeys(Tail(keys), query)
       ELSE FilterKeys(Tail(keys), query)

\* extractAllowedQueryParams(config, query): ok is FALSE when a value makes
\* decodeURIComponent throw; val is the list of `${key}=${decoded}` entries.
extractAllowedQueryParams(configEntry, query) ==
  LET allowed == FilterKeys(configEntry._queryParamsToEnv, query) IN
  [ok |-> \A i \in 1..Len(allowed) : decodeURIComponent(query[allowed[i]]).ok,
   val |-> [i \in 1..Len(allowed) |->
              [k |-> allowed[i], v |-> decodeURIComponent(query[allowed[i]]).val]]]

\* Mutation: the lookup falls back to the first entry when no key matches.
FindMatch_FirstEntry(configArray, key) ==
  IF \E i \in 1..Len(configArray) : configArray[i]._key = key
  THEN CHOOSE i \in 1..Len(configArray) :
         /\ configArray[i]._key = key
         /\ \A j \in 1..(i - 1) : configArray[j]._key # key
  ELSE IF Len(configArray) > 0 THEN 1 ELSE 0

\* config.find((e) => e.key === key): the index of the first match, 0 for none.
FindMatch(configArray, key) ==
  IF \E i \in 1..Len(configArray) : configArray[i]._key = key
  THEN CHOOSE i \in 1..Len(configArray) :
         /\ configArray[i]._key = key
         /\ \A j \in 1..(i - 1) : configArray[j]._key # key
  ELSE 0

\* Mutation: only the list form of allowFrom is tested.
Disallowed_ListOnly(allowFrom, clientIp) ==
  allowFrom.kind = "list" /\ ~(\E i \in 1..Len(allowFrom.addrs) : allowFrom.addrs[i] = clientIp)

\* The allowlist condition of the handler: TRUE when the request is rejected.
Disallowed(allowFrom, clientIp) ==
  \/ (allowFrom.kind = "string" /\ allowFrom.addrs[1] # clientIp)
  \/ (allowFrom.kind = "list" /\ ~(\E i \in 1..Len(allowFrom.addrs) : allowFrom.addrs[i] = clientIp))

\* The env merge of the handler: [...(match.createOptions?.env ?? []), ...queryToEnvVars]
MergedEnv(createOptions, queryToEnvVars) ==
  (IF createOptions.hasEnv THEN createOptions.env ELSE <<>>) \o queryToEnvVars

\* { name: genNewInstanceName(match), ...match.createOptions }: the spread
\* comes after name, so a name in match.createOptions replaces it.
BuildCreateOptions(generated, createOptions) ==
  [name |-> IF createOptions.hasName THEN ConfiguredName(createOptions.name) ELSE generated,
   env |-> createOptions.env]

(* ------------------------------ response ------------------------------ *)

\* A response nothing has been sent on: sent is the status that reached the
\* caller (0 for none yet), ends the number of status(..).end() calls.
FreshRes == [sent |-> 0, ends |-> 0]

\* res.status(code).end(): the first call sends the status to the caller;
\* on a response that has ended, nothing more reaches the caller.
ResStatusEnd(res, code) ==
  [sent |-> IF res.ends = 0 THEN code ELSE res.sent, ends |-> res.ends + 1]


(* ------------------------------ requests ------------------------------ *)

NoName == [root |-> <<>>, uniq |-> 0]

\* A request that has not arrived yet.
IdleKick ==
  [pc |-> "idle", key |-> "", match |-> 0, clientIp |-> "", query |-> QueryNone,
   queryToEnvVars |-> <<>>,
   createOptions |-> [name |-> NoName, env |-> <<>>],
   calls |-> <<>>,
   res |-> FreshRes, logs |-> {}]

\* The fields of a request: key is req.params.key; match, clientIp, query,
\* queryToEnvVars and createOptions are the handler's locals (set when the
\* handler computes them); calls lists the container-runtime calls made
\* for the request, in order; res is the response; logs the levels of the
\* warnings and errors logged for it.

\* Positions of a request whose handler and callbacks have all run.
\*   noMatch   400, no entry has the key        forbidden  403
\*   threw     the handler threw (URIError)     pullThrew  docker.pull threw
\*   pullFailed the pull promise rejected       rejected   admission refused
\*   removed / removeFailed / runFailed         the run's promise chain ended
\* Positions in flight: "pulling", "running", "removing".

InvalidPcs == {"noMatch", "forbidden", "threw"}

FaultPcs == {"pullThrew", "pullFailed", "runFailed", "removeFailed"}

\* The bound on what the environment does in one behaviour.
WithinBounds(ks) ==
  \A k \in Kicks :
    (\/ ks[k].pc \in InvalidPcs
     \/ ks[k].pc \in FaultPcs
     \/ ks[k].query # QueryNone) => k <= MaxDeviations

Init ==
  /\ phase = "starting"
  /\ \/ rawIsArray = TRUE /\ configRaw \in ConfigFiles
     \/ rawIsArray = FALSE /\ configRaw = <<>>
  /\ config = <<>>
  /\ runningMap = [n \in {} |-> <<>>]
  /\ kicks = [k \in Kicks |-> IdleKick]

\* The second readFile callback: build the entries, validate, listen.
\* Mutation: the listener is started whatever the validation says.
Startup_ListenAnyway ==
  /\ phase = "starting"
  /\ config' = [i \in 1..Len(configRaw) |-> ConfigEntry(configRaw[i])]
  /\ phase' = "listening"
  /\ UNCHANGED <<rawIsArray, configRaw, runningMap, kicks>>

Startup ==
  /\ phase = "starting"
  /\ LET built == [i \in 1..Len(configRaw) |-> ConfigEntry(configRaw[i])] IN
       IF ~rawIsArray
       THEN \* throw "Invalid config."
            /\ config' = config
            /\ phase' = "failed"
       ELSE /\ config' = built
            /\ phase' = IF tryValidateConfig(built) THEN "listening" ELSE "failed"
  /\ UNCHANGED <<rawIsArray, configRaw, runningMap, kicks>>

\* app.post("/:key") up to its return: request k arrives with a key, a
\* client address and a query; pullThrows says whether docker.pull throws
\* synchronously (the handler's try/catch).
HandlePost(k, key, clientIp, query, pullThrows) ==
  LET m == FindMatch(config, key) IN
  IF m = 0
  THEN /\ kicks' = [kicks EXCEPT ![k] =
                      [@ EXCEPT !.pc = "noMatch", !.key = key,
                                !.res = ResStatusEnd(@, 400)]]
       /\ UNCHANGED <<config, runningMap>>
  ELSE IF Disallowed(config[m]._allowFrom, clientIp)
  THEN /\ kicks' = [kicks EXCEPT ![k] =
                      [@ EXCEPT !.pc = "forbidden", !.key = key, !.match = m,
                                !.clientIp = clientIp,
                                !.logs = @ \cup {"warn"},
                                !.res = ResStatusEnd(@, 403)]]
       /\ UNCHANGED <<config, runningMap>>
  ELSE LET queryToEnvVars == extractAllowedQueryParams(config[m], query) IN
  IF ~queryToEnvVars.ok
  THEN \* URIError leaves the handler; the framework answers 500.
       /\ kicks' = [kicks EXCEPT ![k] =
                      [@ EXCEPT !.pc = "threw", !.key = key, !.match = m,
                                !.clientIp = clientIp, !.query = query,
                                !.res = ResStatusEnd(@, 500)]]
       /\ UNCHANGED <<config, runningMap>>
  ELSE LET env == MergedEnv(config[m]._createOptions, queryToEnvVars.val)
           \* match.createOptions.env = env
           mutated == [config[m]._createOptions EXCEPT !.hasEnv = TRUE, !.env = env]
           createOptions == BuildCreateOptions(genNewInstanceName(config[m], k), mutated)
       IN
       /\ config' = [config EXCEPT ![m]._createOptions = mutated]
       /\ kicks' = [kicks EXCEPT ![k] =
                      [@ EXCEPT !.pc = IF pullThrows THEN "pullThrew" ELSE "pulling",
                                !.key = key, !.match = m,
                                !.clientIp = clientIp, !.query = query,
                                !.queryToEnvVars = queryToEnvVars.val,
                                !.createOptions = createOptions,
                                !.calls = Append(@, "pull"),
                                !.logs = IF pullThrows THEN @ \cup {"error"} ELSE @,
                                !.res = ResStatusEnd(@, 200)]]
       /\ UNCHANGED runningMap

Post(k) ==
  /\ phase = "listening"
  /\ kicks[k].pc = "idle"
  /\ k > 1 => kicks[k - 1].pc # "idle"
  /\ \E key \in RequestKeys, clientIp \in ClientIps, query \in Queries, pullThrows \in BOOLEAN :
       HandlePost(k, key, clientIp, query, pullThrows)
  /\ WithinBounds(kicks')
  /\ UNCHANGED <<phase, rawIsArray, configRaw>>

\* Mutation: the identifier is tracked before the limit is tested, and the
\* rejected request leaves it in the bucket.
OnPullResolved_TrackThenReject(k) ==
  LET match == config[kicks[k].match]
      name == kicks[k].createOptions.name
      r == tryTrackNewRunningInstance(runningMap, match, name)
  IN
  IF ~r.ok
  THEN /\ kicks' = [kicks EXCEPT ![k] =
                      [@ EXCEPT !.pc = "rejected",
                                !.logs = @ \cup {"warn"},
                                !.res = ResStatusEnd(@, 429)]]
       /\ runningMap' = MapSet(runningMap, NameOf(match),
                               Append(runningMap[NameOf(match)], name))
  ELSE /\ runningMap' = r.map
       /\ kicks' = [kicks EXCEPT ![k] =
                      [@ EXCEPT !.pc = "running", !.calls = Append(@, "run")]]

\* The callback of docker.pull(...).then: admission, then docker.run.
OnPullResolved(k) ==
  LET match == config[kicks[k].match]
      r == tryTrackNewRunningInstance(runningMap, match, kicks[k].createOptions.name)
  IN
  IF ~r.ok
  THEN /\ kicks' = [kicks EXCEPT ![k] =
                      [@ EXCEPT !.pc = "rejected",
                                !.logs = @ \cup {"warn"},
                                !.res = ResStatusEnd(@, 429)]]
       /\ UNCHANGED runningMap
  ELSE /\ runningMap' = r.map
       /\ kicks' = [kicks EXCEPT ![k] =
                      [@ EXCEPT !.pc = "running", !.calls = Append(@, "run")]]

PullResolved(k) ==
  /\ phase = "listening"
  /\ kicks[k].pc = "pulling"
  /\ OnPullResolved(k)
  /\ UNCHANGED <<phase, rawIsArray, configRaw, config>>

\* What the runtime does with a promise rejection nobody handles: "throw"
\* ends the process (the default of the Node 16 image), "warn" prints a
\* warning and goes on.
UnhandledRejectionModes == {"throw", "warn"}

\* The pull promise rejects: the chain has no rejection handler.
PullRejected(k) ==
  /\ phase = "listening"
  /\ kicks[k].pc = "pulling"
  /\ \E mode \in UnhandledRejectionModes :
       phase' = IF mode = "throw" THEN "crashed" ELSE phase
  /\ kicks' = [kicks EXCEPT ![k].pc = "pullFailed"]
  /\ WithinBounds(kicks')
  /\ UNCHANGED <<rawIsArray, configRaw, config, runningMap>>

\* docker.run resolved: the first .then calls container.remove().
RunResolved(k) ==
  /\ phase = "listening"
  /\ kicks[k].pc = "running"
  /\ kicks' = [kicks EXCEPT ![k] =
                 [@ EXCEPT !.pc = "removing", !.calls = Append(@, "remove")]]
  /\ UNCHANGED <<phase, rawIsArray, configRaw, config, runningMap>>

\* The second .then: the removal succeeded.
OnRemoved(k) ==
  /\ runningMap' = untrackRunningInstance(runningMap, config[kicks[k].match],
                                          kicks[k].createOptions.name)
  /\ kicks' = [kicks EXCEPT ![k].pc = "removed"]

RemoveResolved(k) ==
  /\ phase = "listening"
  /\ kicks[k].pc = "removing"
  /\ OnRemoved(k)
  /\ UNCHANGED <<phase, rawIsArray, configRaw, config>>

\* Mutation: the .catch only logs; it does not untrack.
OnChainRejected_NoUntrack(k, pc) ==
  /\ runningMap' = runningMap
  /\ kicks' = [kicks EXCEPT ![k] = [@ EXCEPT !.pc = pc, !.logs = @ \cup {"error"}]]

\* The .catch of the chain: the run or the removal failed.
OnChainRejected(k, pc) ==
  /\ runningMap' = untrackRunningInstance(runningMap, config[kicks[k].match],
                                          kicks[k].createOptions.name)
  /\ kicks' = [kicks EXCEPT ![k] = [@ EXCEPT !.pc = pc, !.logs = @ \cup {"error"}]]

RunRejected(k) ==
  /\ phase = "listening"
  /\ kicks[k].pc = "running"
  /\ OnChainRejected(k, "runFailed")
  /\ WithinBounds(kicks')
  /\ UNCHANGED <<phase, rawIsArray, configRaw, config>>

RemoveRejected(k) ==
  /\ phase = "listening"
  /\ kicks[k].pc = "removing"
  /\ OnChainRejected(k, "removeFailed")
  /\ WithinBounds(kicks')
  /\ UNCHANGED <<phase, rawIsArray, configRaw, config>>

Next ==
  \/ Startup
  \/ \E k \in Kicks : Post(k)
  \/ \E k \in Kicks : PullResolved(k)
  \/ \E k \in Kicks : PullRejected(k)
  \/ \E k \in Kicks : RunResolved(k)
  \/ \E k \in Kicks : RunRejected(k)
  \/ \E k \in Kicks : RemoveResolved(k)
  \/ \E k \in Kicks : RemoveRejected(k)

Spec == Init /\ [][Next]_vars

(* ----------------------- startup over all files ----------------------- *)

\* tryValidateConfig of src/app.js: the per-entry tests and the uniqueness
\* of names; keys are not compared.
tryValidateConfigEnv(configArray) ==
  /\ \A i \in 1..Len(configArray) :
        /\ NameOf(configArray[i]) # <<>>
        /\ configArray[i]._key # ""
        /\ configArray[i]._image # ""
  /\ Cardinality({NameOf(configArray[i]) : i \in 1..Len(configArray)}) = Len(configArray)

\* The startup of src/app.js: the configuration comes from KICKER_CONFIG,
\* is built and validated at module load, and app.listen is the last
\* statement.
StartupEnv ==
  /\ phase = "starting"
  /\ LET built == [i \in 1..Len(configRaw) |-> ConfigEntry(configRaw[i])] IN
       IF ~rawIsArray
       THEN /\ config' = config
            /\ phase' = "failed"
       ELSE /\ config' = built
            /\ phase' = IF tryValidateConfigEnv(built) THEN "listening" ELSE "failed"
  /\ UNCHANGED <<rawIsArray, configRaw, runningMap, kicks>>

\* Characters of configuration names: letters and non-alphanumerics.
NameChars == {"s", "v", "_", "!", "-"}

\* Every name of at most MaxNameLen characters.
SmallNames == UNION {[1..n -> NameChars] : n \in 0..MaxNameLen}

\* Entries with a name, key or image that may be empty, and names that
\* differ only in their non-alphanumerics.
SmallEntries ==
  {[RawEntry(name, key, 0, NoCreateOptions) EXCEPT !.image = image] :
     name \in {<<>>, <<"s">>, <<"s", "_">>, <<"s", "!">>},
     key \in {"", "K1", "K2"},
     image \in {"", "img"}}

\* Every list of at most MaxEntries such entries, and every one-entry list
\* with a small name.
SmallConfigFiles ==
  UNION {[1..n -> SmallEntries] : n \in 0..MaxEntries}
    \cup {<<RawEntry(name, "K1", 0, NoCreateOptions)>> : name \in SmallNames}

InitStartup ==
  /\ phase = "starting"
  /\ \/ rawIsArray = TRUE /\ configRaw \in SmallConfigFiles
     \/ rawIsArray = FALSE /\ configRaw = <<>>
  /\ config = <<>>
  /\ runningMap = [n \in {} |-> <<>>]
  /\ kicks = [k \in Kicks |-> IdleKick]

NextStartup ==
  \/ Startup
  \/ StartupEnv

\* The process up to the end of its startup, in either variant, over every
\* small configuration file.
SpecStartup == InitStartup /\ [][NextStartup]_vars


(* ----------------------- vocabulary of properties --------------------- *)

\* The identifiers tracked for a configuration name in a tracking map.
BucketIn(map, n) == IF n \in DOMAIN map THEN map[n] ELSE <<>>

\* Positions of a request whose run's promise chain has ended.
ReleasedPcs == {"removed", "removeFailed", "runFailed"}

\* Positions of a request that was admitted (docker.run was called for it).
AdmittedPcs == {"running", "removing"} \cup ReleasedPcs

\* The requests that matched entry i and are at one of the positions pcs.
KicksAt(i, pcs) == {k \in Kicks : kicks[k].match = i /\ kicks[k].pc \in pcs}

\* The step is the end of request k's promise chain (its release runs in it).
ReleaseStep(k) == kicks[k].pc \in {"running", "removing"} /\ kicks'[k].pc \in ReleasedPcs

\* The cleaned configuration name of the entry request k matched.
NameOfKick(k) == NameOf(config[kicks[k].match])

\* arr without its element at 0-based index i.
RemoveAt(arr, i) == SubSeq(arr, 1, i) \o SubSeq(arr, i + 2, Len(arr))

Min(a, b) == IF a < b THEN a ELSE b

(* ----------------------------- properties ----------------------------- *)

\* C1: the containers of one configuration entry that are running at the
\* same time (docker.run called, its promise not settled) never outnumber
\* the entry's limit.
C1_RunningWithinLimit ==
  \A i \in 1..Len(config) : Cardinality(KicksAt(i, {"running"})) <= config[i]._limit

\* C2: as long as nothing has been released for an entry, of the admission
\* attempts made for it exactly min(attempts, limit) are admitted and the
\* others rejected (with limit 2, three attempts admit two and reject one);
\* and right after a release the next attempt for that name is admitted.
C2_AdmitUpToLimit ==
  \A i \in 1..Len(config) :
    KicksAt(i, ReleasedPcs) = {} =>
      Cardinality(KicksAt(i, AdmittedPcs))
        = Min(Cardinality(KicksAt(i, AdmittedPcs \cup {"rejected"})), config[i]._limit)

C2_AdmitAfterRelease ==
  \A k \in Kicks :
    ReleaseStep(k) =>
      \A u \in Kicks :
        tryTrackNewRunningInstance(runningMap', config[kicks[k].match],
                                   genNewInstanceName(config[kicks[k].match], u)).ok

C2_Admission == [](C2_AdmitUpToLimit) /\ [][C2_AdmitAfterRelease]_vars

\* C2 witness: limit 2; requests 1 and 2 were admitted and request 3 rejected,
\* request 1 was released and request 4 was then admitted.
C2_Witness ==
  /\ phase = "listening"
  /\ config[1]._limit = 2
  /\ kicks[1].pc = "removed"
  /\ kicks[2].pc = "running"
  /\ kicks[3].pc = "rejected"
  /\ kicks[4].pc = "running"

\* C3: a release of an identifier that is tracked removes that identifier
\* from its bucket and nothing else.
C3_ReleaseRemovesOnlyOwn ==
  [][\A k \in Kicks :
       LET bucket == BucketIn(runningMap, NameOfKick(k))
           at == IndexOf(bucket, kicks[k].createOptions.name)
       IN (ReleaseStep(k) /\ at >= 0) =>
            BucketIn(runningMap', NameOfKick(k)) = RemoveAt(bucket, at)]_vars

\* C4: a release of an identifier that is not tracked changes nothing in
\* the tracking map.
C4_ReleaseOfAbsentIsNoOp ==
  [][\A k \in Kicks :
       (ReleaseStep(k)
          /\ IndexOf(BucketIn(runningMap, NameOfKick(k)), kicks[k].createOptions.name) = -1)
       => runningMap' = runningMap]_vars

\* C5: a kick whose admission was rejected was answered with 429.
C5_RejectedAnswered429 ==
  \A k \in Kicks : kicks[k].pc = "rejected" => kicks[k].res.sent = 429

\* C6: the name in the creation options of an admitted kick (the one given
\* to docker.run, to admission and to release) is the generated identifier.
C6_NameIsGenerated ==
  \A k \in Kicks :
    kicks[k].pc \in AdmittedPcs =>
      kicks[k].createOptions.name = genNewInstanceName(config[kicks[k].match], k)

\* C7: the environment given to docker.run is the environment configured
\* at startup followed by the entries derived from the kick's own query.
C7_EnvIsConfiguredPlusOwn ==
  \A k \in Kicks :
    kicks[k].pc \in AdmittedPcs =>
      kicks[k].createOptions.env
        = MergedEnv(configRaw[kicks[k].match].createOptions, kicks[k].queryToEnvVars)

\* C8: when the pull of a kick fails, the failure is logged, the caller has
\* its 200, no container was run and nothing is tracked for the kick, and
\* the process is still serving.
C8_PullFailureHandled ==
  \A k \in Kicks :
    kicks[k].pc \in {"pullThrew", "pullFailed"} =>
      /\ "error" \in kicks[k].logs
      /\ kicks[k].res.sent = 200
      /\ IndexOf(BucketIn(runningMap, NameOfKick(k)), kicks[k].createOptions.name) = -1
      /\ phase = "listening"

\* C9: the step that ends an admitted kick's run (removed, removal failed,
\* run failed) leaves its identifier untracked; a failure is logged and the
\* process goes on serving.
C9_CompletionReleases ==
  [][\A k \in Kicks :
       ReleaseStep(k) =>
         /\ IndexOf(BucketIn(runningMap', NameOfKick(k)), kicks[k].createOptions.name) = -1
         /\ kicks'[k].pc \in {"removeFailed", "runFailed"} => "error" \in kicks'[k].logs
         /\ phase' = "listening"]_vars

\* C9 witness: a run succeeded, its removal failed, and the identifier is
\* no longer tracked while another admitted kick still is.
C9_Witness ==
  \E k \in Kicks :
    /\ kicks[k].pc = "removeFailed"
    /\ IndexOf(BucketIn(runningMap, NameOfKick(k)), kicks[k].createOptions.name) = -1
    /\ \E j \in Kicks : kicks[j].pc = "running"

\* C10: the bucket of every configuration entry holds at most limit
\* identifiers.
C10_BucketWithinLimit ==
  \A i \in 1..Len(config) :
    Len(BucketIn(runningMap, NameOf(config[i]))) <= config[i]._limit

\* C10 witness: a bucket filled up to a limit of 2.
C10_Witness ==
  \E i \in 1..Len(config) :
    /\ config[i]._limit = 2
    /\ Len(BucketIn(runningMap, NameOf(config[i]))) = 2

\* The client address is neither the entry's single allowFrom address nor
\* a member of its allowFrom list.
NotAllowlisted(entry, clientIp) ==
  /\ entry._allowFrom.kind = "string" => entry._allowFrom.addrs # <<clientIp>>
  /\ entry._allowFrom.kind = "list" =>
       \A i \in 1..Len(entry._allowFrom.addrs) : entry._allowFrom.addrs[i] # clientIp

\* C11: a request whose key matches an entry and whose client address is
\* not allowlisted by it is answered 403 (once), with no container-runtime
\* call made for it; the step that handles it leaves the tracking map as
\* it was.
C11_ForbiddenAnswered ==
  \A k \in Kicks :
    (kicks[k].match # 0 /\ NotAllowlisted(config[kicks[k].match], kicks[k].clientIp)) =>
      /\ kicks[k].pc = "forbidden"
      /\ kicks[k].res = [sent |-> 403, ends |-> 1]
      /\ kicks[k].calls = <<>>

C11_ForbiddenStep ==
  \A k \in Kicks :
    (kicks[k].pc = "idle" /\ kicks'[k].pc = "forbidden") => runningMap' = runningMap

C11_Forbidden == [](C11_ForbiddenAnswered) /\ [][C11_ForbiddenStep]_vars

\* C11 witness: a request rejected by an entry with a single allowFrom
\* address while the bucket of that entry is occupied by a later kick.
C11_Witness ==
  \E k \in Kicks :
    /\ kicks[k].pc = "forbidden"
    /\ config[kicks[k].match]._allowFrom.kind = "string"
    /\ kicks[k].clientIp = "127.0.0.1"
    /\ \E j \in Kicks : kicks[j].pc = "running"

\* C12: a request whose key is the key of no configured entry is answered
\* 400 (once), with no container-runtime call made for it; the step that
\* handles it leaves the tracking map as it was.
C12_UnknownKeyAnswered ==
  \A k \in Kicks :
    (kicks[k].pc # "idle" /\ \A i \in 1..Len(config) : config[i]._key # kicks[k].key) =>
      /\ kicks[k].pc = "noMatch"
      /\ kicks[k].res = [sent |-> 400, ends |-> 1]
      /\ kicks[k].calls = <<>>

C12_UnknownKeyStep ==
  \A k \in Kicks :
    (kicks[k].pc = "idle" /\ kicks'[k].pc = "noMatch") => runningMap' = runningMap

C12_UnknownKey == [](C12_UnknownKeyAnswered) /\ [][C12_UnknownKeyStep]_vars

\* C12 witness: a request with an unknown key was answered 400 and a later
\* kick with a configured key is running.
C12_Witness ==
  \E k \in Kicks :
    /\ kicks[k].pc = "noMatch"
    /\ kicks[k].key = "nokey"
    /\ kicks[k].res.sent = 400
    /\ \E j \in Kicks : kicks[j].pc = "running"

\* Two entries of a configuration file have the same cleaned name.
SameNameTwice(raw) ==
  \E i, j \in 1..Len(raw) :
    i # j /\ cleanConfigName(raw[i].name) = cleanConfigName(raw[j].name)

\* Two entries of a configuration file have the same key.
SameKeyTwice(raw) == \E i, j \in 1..Len(raw) : i # j /\ raw[i].key = raw[j].key

\* Every entry of a configuration file has a name, a key and an image.
AllRequiredFields(raw) ==
  \A i \in 1..Len(raw) : raw[i].name # <<>> /\ raw[i].key # "" /\ raw[i].image # ""

\* C13: once startup has validated a configuration list, validation failed
\* if two entries share a cleaned name or a key, and succeeded if every
\* entry has name, key and image and names and keys are pairwise distinct.
C13_ValidationVerdict ==
  (rawIsArray /\ phase # "starting") =>
    /\ (SameNameTwice(configRaw) \/ SameKeyTwice(configRaw)) => phase = "failed"
    /\ (AllRequiredFields(configRaw) /\ ~SameNameTwice(configRaw) /\ ~SameKeyTwice(configRaw))
         => phase = "listening"

\* The number of calls of one docker operation in a call record.
CallCount(calls, op) == Cardinality({i \in 1..Len(calls) : calls[i] = op})

\* C14: a valid kick is answered 200 and pulls once; once admitted it has
\* pulled once and then run once, and the name it runs under is the cleaned
\* name of its entry followed by a generated suffix.
C14_KickPullsThenRuns ==
  \A k \in Kicks :
    /\ kicks[k].pc = "pulling" =>
         kicks[k].res.sent = 200 /\ kicks[k].calls = <<"pull">>
    /\ kicks[k].pc \in AdmittedPcs =>
         /\ kicks[k].res.sent = 200
         /\ SubSeq(kicks[k].calls, 1, 2) = <<"pull", "run">>
         /\ CallCount(kicks[k].calls, "pull") = 1
         /\ CallCount(kicks[k].calls, "run") = 1
         /\ kicks[k].createOptions.name.root = NameOfKick(k)
         /\ kicks[k].createOptions.name.uniq # 0

\* The parameter names that are both in a request's query and in the
\* queryParamsToEnv list of an entry.
AllowedPresent(entry, query) ==
  DOMAIN query \cap {entry._queryParamsToEnv[i] : i \in 1..Len(entry._queryParamsToEnv)}

\* C15: the environment entries derived from a request that reached the
\* extraction are one entry per parameter name that is both in the query
\* and allowlisted, each carrying the parameter's URL-decoded value (the
\* value req.query holds), and no entry for any other name.
C15_DerivedEnvIsDecodedQuery ==
  \A k \in Kicks :
    kicks[k].pc \notin {"idle", "noMatch", "forbidden"} =>
      LET env == kicks[k].queryToEnvVars
          names == AllowedPresent(config[kicks[k].match], kicks[k].query)
      IN
      /\ \A n \in names : Cardinality({i \in 1..Len(env) : env[i].k = n}) = 1
      /\ \A i \in 1..Len(env) :
           env[i].k \in names /\ env[i].v = kicks[k].query[env[i].k]

\* C16: a kick whose pull or whose run has not completed occupies a slot of
\* its configuration: its name is in the bucket of its entry, whatever the
\* other requests have done meanwhile.
C16_PendingKickHoldsSlot ==
  \A k \in Kicks :
    kicks[k].pc \in {"pulling", "running"} =>
      IndexOf(BucketIn(runningMap, NameOfKick(k)), kicks[k].createOptions.name) >= 0

\* The configuration file is a list that passes validation: every entry
\* has name, key and image, and names and keys are pairwise distinct.
ValidConfigFile ==
  /\ rawIsArray
  /\ AllRequiredFields(configRaw)
  /\ ~SameNameTwice(configRaw)
  /\ ~SameKeyTwice(configRaw)

\* The listener is up, or a request has been received, only with a
\* configuration file that passed validation.
C17_ListeningOnlyIfValid ==
  (phase = "listening" \/ \E k \in Kicks : kicks[k].pc # "idle") => ValidConfigFile

\* The listener starts in the startup step and in no other; startup never
\* runs again; a process whose startup failed stays failed and receives no
\* request.
C17_StartupStep ==
  /\ (phase' = "listening" /\ phase # "listening") => phase = "starting"
  /\ phase # "starting" => phase' # "starting"
  /\ phase = "failed" => (phase' = "failed" /\ kicks' = kicks)

\* C17: validation runs once, at startup; the listener accepts requests
\* only after it succeeded and is never started when it failed or when the
\* configuration is not a list.
C17_ListenAfterValidation == [](C17_ListeningOnlyIfValid) /\ [][C17_StartupStep]_vars

\* A list with two entries of the same cleaned name: startup has failed and
\* no request was received.
C17_Witness ==
  /\ phase = "failed"
  /\ rawIsArray
  /\ SameNameTwice(configRaw)
  /\ \A k \in Kicks : kicks[k].pc = "idle"

\* The positions of a name that survive cleaning: the letters and digits,
\* and the first character of every maximal run of other characters.
KeptPositions(name) ==
  {i \in 1..Len(name) :
     IsAlnum(name[i]) \/ i = 1 \/ IsAlnum(name[i - 1])}

\* A name with every maximal run of non-alphanumerics collapsed to a dash.
CollapseRuns(name) ==
  LET kept == KeptPositions(name)
      nth(j) == CHOOSE i \in kept : Cardinality({x \in kept : x <= i}) = j
  IN [j \in 1..Cardinality(kept) |->
        IF IsAlnum(name[nth(j)]) THEN name[nth(j)] ELSE "-"]

\* C18: the cleaned name of every loaded entry is its configured name with
\* each maximal run of characters other than letters and digits replaced by
\* one dash; cleaning it again returns it unchanged; "a b_c!d" cleans to
\* "a-b-c-d".
C18_CleaningCollapsesRuns ==
  /\ cleanConfigName(<<"a", " ", "b", "_", "c", "!", "d">>)
       = <<"a", "-", "b", "-", "c", "-", "d">>
  /\ \A i \in 1..Len(config) :
       /\ NameOf(config[i]) = CollapseRuns(configRaw[i].name)
       /\ cleanConfigName(NameOf(config[i])) = NameOf(config[i])

\* An entry whose name has a run of two non-alphanumerics between letters
\* has been loaded.
C18_Witness ==
  /\ phase = "listening"
  /\ Len(config) = 1
  /\ configRaw[1].name = <<"s", "_", "!", "v">>
  /\ NameOf(config[1]) = <<"s", "-", "v">>

\* C19: after startup every loaded entry is as it was constructed from the
\* configuration file, whatever requests have been handled.
C19_EntriesAsLoaded ==
  phase # "starting" =>
    config = [i \in 1..Len(configRaw) |-> ConfigEntry(configRaw[i])]

\* A rejected request has pulled and has requested no run.
C20_RejectedNeverRuns ==
  \A k \in Kicks : kicks[k].pc = "rejected" => kicks[k].calls = <<"pull">>

\* The step that rejects a request finds the bucket of its entry at the
\* limit or above and leaves the tracking map as it was; a rejected request
\* takes no further step, so it performs no release.
C20_RejectStep ==
  \A k \in Kicks :
    /\ (kicks[k].pc = "pulling" /\ kicks'[k].pc = "rejected") =>
         /\ Len(BucketIn(runningMap, NameOfKick(k))) >= config[kicks[k].match]._limit
         /\ runningMap' = runningMap
    /\ kicks[k].pc = "rejected" => kicks'[k] = kicks[k]

\* C20: a rejected admission leaves the tracking map unchanged, no run is
\* requested for that kick, and the kick performs no release afterwards.
C20_RejectionLeavesNoTrace == [](C20_RejectedNeverRuns) /\ [][C20_RejectStep]_vars

\* A request was rejected and, afterwards or before, an admitted request of
\* the same entry was released.
C20_Witness ==
  \E k, j \in Kicks :
    /\ kicks[k].pc = "rejected"
    /\ kicks[j].pc \in ReleasedPcs
    /\ kicks[j].match = kicks[k].match

\* C21: every request that has arrived has had a status sent on its
\* response exactly once, on whichever path the handler and its callbacks
\* took.
C21_StatusSentOnce ==
  \A k \in Kicks :
    kicks[k].pc # "idle" => kicks[k].res.ends = 1 /\ kicks[k].res.sent # 0

=============================================================================
